---- MODULE Spec2Model ----
(***************************************************************************)
(* Model of tests/integration/db_utils.py: type inference and value        *)
(* conversion for CSV import, the schema lifecycle operations, the import  *)
(* pipeline as a sequence of statements on one database session, and the   *)
(* CSV comparator.                                                         *)
(*                                                                         *)
(* Text is modelled as a sequence of one-character strings, so that        *)
(* parsing, ordering and length are computed rather than assumed.  Cells   *)
(* are drawn from the alphabet: space + - . : 0..9 T x y.  Over this       *)
(* alphabet Python's int() accepts [ws][sign]digits[ws] and float()        *)
(* accepts [ws][sign](digits[.digits*] | .digits)[ws].                     *)
(***************************************************************************)
EXTENDS Integers, Sequences, FiniteSets, TLC

VARIABLES
    cdb,          \* the database as committed
    wdb,          \* the database as the open session sees it (uncommitted work included)
    calls,        \* number of operations called on the session so far
    imported,     \* whether import_csv has been called on the open connection
    last,         \* the last operation called: its arguments, statements and outcome
    headers,      \* infer_column_types: argument headers
    rows,         \* infer_column_types: argument rows
    col_types,    \* infer_column_types: its result
    file1,        \* compare_csv_files: first document
    file2,        \* compare_csv_files: second document
    ignore_order, \* compare_csv_files: the ordering mode
    result,       \* compare_csv_files: its result
    pc            \* "input": arguments chosen, "done": the function has returned

vars == <<cdb, wdb, calls, imported, last, headers, rows, col_types,
          file1, file2, ignore_order, result, pc>>

dbVars == <<cdb, wdb, calls, imported, last>>
inferVars == <<headers, rows, col_types>>
cmpVars == <<file1, file2, ignore_order, result>>

(***************************************************************************)
(* Text                                                                    *)
(***************************************************************************)

Digits == {"0", "1", "2", "3", "4", "5", "6", "7", "8", "9"}

\* Code point of a character (Python compares str by code point).
Ord(c) ==
    CASE c = " " -> 32 [] c = "+" -> 43 [] c = "-" -> 45 [] c = "." -> 46
      [] c = "0" -> 48 [] c = "1" -> 49 [] c = "2" -> 50 [] c = "3" -> 51
      [] c = "4" -> 52 [] c = "5" -> 53 [] c = "6" -> 54 [] c = "7" -> 55
      [] c = "8" -> 56 [] c = "9" -> 57 [] c = ":" -> 58 [] c = "T" -> 84
      [] c = "a" -> 97 [] c = "b" -> 98 [] c = "c" -> 99
      [] c = "x" -> 120 [] c = "y" -> 121

\* s < t for str: the first differing character decides, a proper prefix is smaller.
RECURSIVE StrLess(_, _)
StrLess(s, t) ==
    IF t = <<>> THEN FALSE
    ELSE IF s = <<>> THEN TRUE
    ELSE IF Head(s) = Head(t) THEN StrLess(Tail(s), Tail(t))
    ELSE Ord(Head(s)) < Ord(Head(t))

\* s < t for tuples of str (the sort keys).
RECURSIVE TupleLess(_, _)
TupleLess(s, t) ==
    IF t = <<>> THEN FALSE
    ELSE IF s = <<>> THEN TRUE
    ELSE IF Head(s) = Head(t) THEN TupleLess(Tail(s), Tail(t))
    ELSE StrLess(Head(s), Head(t))

RECURSIVE Rep(_, _)
Rep(c, n) == IF n = 0 THEN <<>> ELSE <<c>> \o Rep(c, n - 1)

RECURSIVE LStrip(_)
LStrip(s) == IF s # <<>> /\ Head(s) = " " THEN LStrip(Tail(s)) ELSE s

RECURSIVE RStrip(_)
RStrip(s) ==
    IF s # <<>> /\ s[Len(s)] = " " THEN RStrip(SubSeq(s, 1, Len(s) - 1)) ELSE s

Strip(s) == RStrip(LStrip(s))

AllDigits(s) == \A i \in 1..Len(s) : s[i] \in Digits

HasSign(s) == s # <<>> /\ Head(s) \in {"+", "-"}

Unsigned(s) == IF HasSign(s) THEN Tail(s) ELSE s

RECURSIVE StripLeadingZeros(_)
StripLeadingZeros(d) ==
    IF Len(d) > 1 /\ Head(d) = "0" THEN StripLeadingZeros(Tail(d)) ELSE d

RECURSIVE StripTrailingZeros(_)
StripTrailingZeros(d) ==
    IF d # <<>> /\ d[Len(d)] = "0"
    THEN StripTrailingZeros(SubSeq(d, 1, Len(d) - 1)) ELSE d

\* int(v) does not raise ValueError.
IsIntStr(v) ==
    LET u == Unsigned(Strip(v)) IN u # <<>> /\ AllDigits(u)

\* abs(int(v)) as its decimal digits without leading zeros (Python integers
\* are unbounded, so the value is kept as digits and never truncated).
AbsDigits(v) == StripLeadingZeros(Unsigned(Strip(v)))

\* a <= b for two naturals given as digits without leading zeros.
DigitsLeq(a, b) ==
    \/ Len(a) < Len(b)
    \/ Len(a) = Len(b) /\ ~StrLess(b, a)

IsZeroDigits(d) == \A i \in 1..Len(d) : d[i] = "0"

\* int(v): sign and magnitude.
IntVal(v) ==
    LET s == Strip(v)
        d == AbsDigits(v)
    IN  [neg |-> HasSign(s) /\ Head(s) = "-" /\ ~IsZeroDigits(d), digits |-> d]

DotAt(u) == CHOOSE i \in 1..Len(u) : u[i] = "."

\* float(v) does not raise ValueError.
IsFloatStr(v) ==
    LET u == Unsigned(Strip(v))
        dots == {i \in 1..Len(u) : u[i] = "."}
    IN  /\ u # <<>>
        /\ Cardinality(dots) <= 1
        /\ \A i \in 1..Len(u) : u[i] \in Digits \cup {"."}
        /\ \E i \in 1..Len(u) : u[i] \in Digits

\* float(v) as a canonical decimal: sign, integer digits without leading
\* zeros, fraction digits without trailing zeros.  Two cells of at most 15
\* significant digits denote the same double iff their canonical forms agree.
FloatVal(v) ==
    LET s == Strip(v)
        u == Unsigned(s)
        hasDot == \E i \in 1..Len(u) : u[i] = "."
        ip == IF hasDot THEN SubSeq(u, 1, DotAt(u) - 1) ELSE u
        fp == IF hasDot THEN SubSeq(u, DotAt(u) + 1, Len(u)) ELSE <<>>
        int == StripLeadingZeros(IF ip = <<>> THEN <<"0">> ELSE ip)
        frac == StripTrailingZeros(fp)
        zero == IsZeroDigits(int) /\ frac = <<>>
    IN  [neg |-> HasSign(s) /\ Head(s) = "-" /\ ~zero, int |-> int, frac |-> frac]

\* re.match(r'^\d{4}-\d{2}-\d{2}$', v)
MatchesDate(v) ==
    /\ Len(v) = 10
    /\ \A i \in {1, 2, 3, 4, 6, 7, 9, 10} : v[i] \in Digits
    /\ v[5] = "-" /\ v[8] = "-"

\* re.match(r'^\d{4}-\d{2}-\d{2}[T ]\d{2}:\d{2}:\d{2}', v): a prefix match
MatchesDatetime(v) ==
    /\ Len(v) >= 19
    /\ MatchesDate(SubSeq(v, 1, 10))
    /\ v[11] \in {"T", " "}
    /\ \A i \in {12, 13, 15, 16, 18, 19} : v[i] \in Digits
    /\ v[14] = ":" /\ v[17] = ":"

(***************************************************************************)
(* CSV documents: headers is a sequence of column names (<<>> for a file   *)
(* without a header row), rows a sequence of functions name -> cell.       *)
(***************************************************************************)

\* row.get(h, '')
Get(row, h) == IF h \in DOMAIN row THEN row[h] ELSE <<>>

Range(s) == {s[i] : i \in 1..Len(s)}

\* Body applied to the value of e, which is computed once.
Let(e, Body(_)) == CHOOSE r \in {Body(x) : x \in {e}} : TRUE

(***************************************************************************)
(* Type inference                                                          *)
(***************************************************************************)

\* 2147483647, the bound of line 235, as digits
Int32MaxDigits == <<"2", "1", "4", "7", "4", "8", "3", "6", "4", "7">>

\* Mutant of ColumnValues: only the first row is sampled.
ColumnValues_FirstOnly(header, rs) ==
    IF rs = <<>> \/ Get(rs[1], header) = <<>> THEN <<>> ELSE <<Get(rs[1], header)>>

\* [row.get(header, '') for row in rows if row.get(header, '')]
ColumnValues(header, rs) ==
    LET all == [i \in 1..Len(rs) |-> Get(rs[i], header)]
    IN  SelectSeq(all, LAMBDA v : v # <<>>)

\* max(abs(int(v)) for v in values)
MaxAbs(values) ==
    LET ds == {AbsDigits(values[i]) : i \in 1..Len(values)}
    IN  CHOOSE m \in ds : \A d \in ds : DigitsLeq(d, m)

\* max(len(v) for v in values)
MaxLen(values) ==
    LET ls == {Len(values[i]) : i \in 1..Len(values)}
    IN  CHOOSE m \in ls : \A l \in ls : l <= m

\* The body of the loop of infer_column_types for one header.
InferType(values) ==
    IF values = <<>> THEN "NVARCHAR(255)"
    ELSE IF \A i \in 1..Len(values) : IsIntStr(values[i])
    THEN IF DigitsLeq(MaxAbs(values), Int32MaxDigits) THEN "INT" ELSE "BIGINT"
    ELSE IF \A i \in 1..Len(values) : IsFloatStr(values[i]) THEN "DECIMAL(18,6)"
    ELSE IF \A i \in 1..Len(values) : MatchesDate(values[i]) THEN "DATE"
    ELSE IF \A i \in 1..Len(values) : MatchesDatetime(values[i]) THEN "DATETIME2"
    ELSE IF MaxLen(values) <= 50 THEN "NVARCHAR(50)"
    ELSE IF MaxLen(values) <= 255 THEN "NVARCHAR(255)"
    ELSE "NVARCHAR(MAX)"

infer_column_types(hs, rs) ==
    [h \in Range(hs) |-> InferType(ColumnValues(h, rs))]

(***************************************************************************)
(* Value conversion                                                        *)
(***************************************************************************)

\* The characters of a type name: the col_types values and the fallback.
TypeName(t) ==
    CASE t = "INT" -> <<"I", "N", "T">>
      [] t = "BIGINT" -> <<"B", "I", "G", "I", "N", "T">>
      [] t = "DECIMAL(18,6)" ->
            <<"D", "E", "C", "I", "M", "A", "L", "(", "1", "8", ",", "6", ")">>
      [] t = "DATE" -> <<"D", "A", "T", "E">>
      [] t = "DATETIME2" -> <<"D", "A", "T", "E", "T", "I", "M", "E", "2">>
      [] t = "NVARCHAR" -> <<"N", "V", "A", "R", "C", "H", "A", "R">>
      [] t = "NVARCHAR(50)" ->
            <<"N", "V", "A", "R", "C", "H", "A", "R", "(", "5", "0", ")">>
      [] t = "NVARCHAR(255)" ->
            <<"N", "V", "A", "R", "C", "H", "A", "R", "(", "2", "5", "5", ")">>
      [] t = "NVARCHAR(MAX)" ->
            <<"N", "V", "A", "R", "C", "H", "A", "R", "(", "M", "A", "X", ")">>

\* needle in hay, for str
Contains(needle, hay) ==
    \E i \in 1..(Len(hay) - Len(needle) + 1) :
        SubSeq(hay, i, i + Len(needle) - 1) = needle

\* The values handed to INSERT: None, an int, a float, a str; ValueError
\* stands for int()/float() raising.
Null == [k |-> "null", neg |-> FALSE, a |-> <<>>, b |-> <<>>]
ValueError == [k |-> "ValueError", neg |-> FALSE, a |-> <<>>, b |-> <<>>]
StrValue(v) == [k |-> "str", neg |-> FALSE, a |-> v, b |-> <<>>]
IntValue(v) == [k |-> "int", neg |-> IntVal(v).neg, a |-> IntVal(v).digits, b |-> <<>>]
FloatValue(v) ==
    [k |-> "float", neg |-> FloatVal(v).neg, a |-> FloatVal(v).int, b |-> FloatVal(v).frac]

convert_value(value, sql_type) ==
    IF value = <<>> THEN Null
    ELSE IF Contains(<<"I", "N", "T">>, TypeName(sql_type))
    THEN IF IsIntStr(value) THEN IntValue(value) ELSE ValueError
    ELSE IF \/ Contains(<<"D", "E", "C", "I", "M", "A", "L">>, TypeName(sql_type))
            \/ Contains(<<"F", "L", "O", "A", "T">>, TypeName(sql_type))
    THEN IF IsFloatStr(value) THEN FloatValue(value) ELSE ValueError
    ELSE StrValue(value)

(***************************************************************************)
(* CSV comparator                                                          *)
(***************************************************************************)

Min(S) == CHOOSE m \in S : \A x \in S : m <= x

\* sorted(headers): column names are single characters
RECURSIVE SortedNames(_)
SortedNames(names) ==
    IF names = {} THEN <<>>
    ELSE LET m == CHOOSE n \in names : \A o \in names : Ord(n) <= Ord(o)
         IN  <<m>> \o SortedNames(names \ {m})

\* Mutant of row_key: the key is the first column alone.
row_key_FirstOnly(row, ks) == IF ks = <<>> THEN <<>> ELSE <<Get(row, ks[1])>>

\* row_key: tuple(str(row.get(h, '')) for h in sorted(headers1 or []))
row_key(row, ks) == [i \in 1..Len(ks) |-> Get(row, ks[i])]

\* One step of a stable sort: r goes before the first row whose key is greater.
InsertRow(s, r, ks) ==
    LET after == {i \in 1..Len(s) : TupleLess(row_key(r, ks), row_key(s[i], ks))}
        p == IF after = {} THEN Len(s) + 1 ELSE Min(after)
    IN  SubSeq(s, 1, p - 1) \o <<r>> \o SubSeq(s, p, Len(s))

\* sorted(rows, key=row_key): Python's sort is stable
RECURSIVE SortedRows(_, _)
SortedRows(rs, ks) ==
    IF rs = <<>> THEN <<>>
    ELSE InsertRow(SortedRows(SubSeq(rs, 1, Len(rs) - 1), ks), rs[Len(rs)], ks)

\* Mutant of HeadersDiffer: only headers missing from the second file count.
HeadersDiffer_OneWay(h1, h2) == ~(Range(h1) \subseteq Range(h2))

\* set(headers1) != set(headers2)
HeadersDiffer(h1, h2) == Range(h1) # Range(h2)

\* float(v1) == float(v2), False when either raises
FloatEqual(v1, v2) ==
    IsFloatStr(v1) /\ IsFloatStr(v2) /\ FloatVal(v1) = FloatVal(v2)

\* A cell pair that is recorded as a difference (lines 371-378).
CellDiffers(v1, v2) == v1 # v2 /\ ~FloatEqual(v1, v2)

Difference(kind, row, column, v1, v2) ==
    [kind |-> kind, row |-> row, column |-> column, v1 |-> v1, v2 |-> v2]

compare_csv_files(f1, f2, io) ==
    LET headers1 == f1.headers
        headers2 == f2.headers
        rows1 == f1.rows
        rows2 == f2.rows
        ks == SortedNames(Range(headers1))
        rows1_sorted == IF io THEN SortedRows(rows1, ks) ELSE rows1
        rows2_sorted == IF io THEN SortedRows(rows2, ks) ELSE rows2
        n == Min({Len(rows1), Len(rows2)})
        m == Len(headers1)
        at == [p \in 1..(n * m) |-> [i |-> ((p - 1) \div m) + 1, h |-> headers1[((p - 1) % m) + 1]]]
        differing == SelectSeq(at, LAMBDA c :
                        CellDiffers(Get(rows1_sorted[c.i], c.h), Get(rows2_sorted[c.i], c.h)))
        differences ==
            (IF HeadersDiffer(headers1, headers2)
             THEN <<Difference("headers", 0, "", headers1, headers2)>> ELSE <<>>)
            \o (IF Len(rows1) # Len(rows2)
                THEN <<Difference("row count", 0, "", <<>>, <<>>)>> ELSE <<>>)
            \o [j \in 1..Len(differing) |->
                    Difference("cell", differing[j].i, differing[j].h,
                               Get(rows1_sorted[differing[j].i], differing[j].h),
                               Get(rows2_sorted[differing[j].i], differing[j].h))]
    IN  [match |-> Len(differences) = 0, differences |-> differences]

(***************************************************************************)
(* Inputs                                                                  *)
(***************************************************************************)

MaxInferRows == 2
MaxCmpRows == 2

\* All sequences over S of length at most n.
SeqsUpTo(S, n) == UNION {[1..k -> S] : k \in 0..n}

InferCells ==
    { <<>>,
      <<"7">>,
      <<"-", "7">>,
      <<"2", "1", "4", "7", "4", "8", "3", "6", "4", "7">>,
      <<"2", "1", "4", "7", "4", "8", "3", "6", "4", "8">>,
      <<"-", "2", "1", "4", "7", "4", "8", "3", "6", "4", "8">>,
      <<"-", "2", "1", "4", "7", "4", "8", "3", "6", "4", "9">>,
      <<"1", ".", "5">>,
      <<"x">>,
      <<"2", "0", "2", "4", "-", "0", "1", "-", "0", "2">>,
      <<"2", "0", "2", "4", "-", "0", "1", "-", "0", "2", "T",
        "1", "0", ":", "0", "0", ":", "0", "0">>,
      Rep("x", 51),
      Rep("x", 256) }

InferCellsOf(h) == IF h = "a" THEN InferCells ELSE {<<>>, <<"7">>, <<"x">>}

InferHeaders == {<<"a">>, <<"a", "b">>}

InferDocs ==
    UNION {
        { [headers |-> hs, rows |-> rs] :
            rs \in SeqsUpTo({r \in [Range(hs) -> InferCells] :
                                \A h \in Range(hs) : r[h] \in InferCellsOf(h)},
                            MaxInferRows) }
        : hs \in InferHeaders }

CmpCellsOf(h) ==
    IF h = "a" THEN {<<"1">>, <<"1", ".", "0">>, <<"2">>} ELSE {<<"x">>, <<"y">>}

CmpHeaders == {<<"a">>, <<"a", "b">>, <<"b", "a">>}

CmpDocs ==
    UNION {
        { [headers |-> hs, rows |-> rs] :
            rs \in SeqsUpTo({r \in [Range(hs) -> CmpCellsOf("a") \cup CmpCellsOf("b")] :
                                \A h \in Range(hs) : r[h] \in CmpCellsOf(h)},
                            MaxCmpRows) }
        : hs \in CmpHeaders }

NoTypes == [h \in {} |-> "NVARCHAR"]
NoResult == [match |-> FALSE, differences |-> <<>>]
NoDoc == [headers |-> <<>>, rows |-> <<>>]

(***************************************************************************)
(* SpecInfer: infer_column_types applied to every bounded row set          *)
(***************************************************************************)

Infer ==
    /\ pc = "input"
    /\ col_types' = infer_column_types(headers, rows)
    /\ pc' = "done"
    /\ UNCHANGED <<headers, rows, dbVars, cmpVars>>

(***************************************************************************)
(* SpecCompare: compare_csv_files applied to every bounded pair            *)
(***************************************************************************)

Compare ==
    /\ pc = "input"
    /\ result' = compare_csv_files(file1, file2, ignore_order)
    /\ pc' = "done"
    /\ UNCHANGED <<file1, file2, ignore_order, dbVars, inferVars>>

(***************************************************************************)
(* The database behind the session.  One schema (the schema_name of every  *)
(* call) holding tables; the connection is opened with autocommit=False,   *)
(* so every statement, DDL included, changes the session's view wdb and    *)
(* reaches cdb only at conn.commit().  A table row carries the number of   *)
(* the call that inserted it.                                              *)
(***************************************************************************)

TableNames == {"t1", "t2"}

NoTable == [exists |-> FALSE, cols |-> <<>>, rows |-> <<>>]

EmptyDb == [schema |-> FALSE, tables |-> [t \in TableNames |-> NoTable]]

ColNames(table) == {table.cols[i].name : i \in 1..Len(table.cols)}

\* A statement issued on the cursor, or conn.commit(); ok = FALSE when it raised.
Stmt(op, table, values, ok) == [op |-> op, table |-> table, values |-> values, ok |-> ok]

\* The state of one call: the session's view, the committed database, the
\* statements issued so far and how the call ended.
Session(w, c) ==
    [w |-> w, c |-> c, stmts |-> <<>>, outcome |-> "running", error |-> "", ret |-> 0]

Issue(st, stmt) == [st EXCEPT !.stmts = Append(@, stmt)]

\* conn.commit()
Commit(st) == [st EXCEPT !.c = st.w, !.stmts = Append(@, Stmt("COMMIT", "", <<>>, TRUE))]

Return(st, value) == [st EXCEPT !.outcome = "returned", !.ret = value]

\* An exception leaves the function: nothing in this file catches it.
Raise(st, error) == [st EXCEPT !.outcome = "raised", !.error = error]

\* Mutant of schema_exists: the catalog lookup always reports the schema.
schema_exists_Always(w) == TRUE

\* SELECT COUNT(*) FROM sys.schemas WHERE name = ?
schema_exists(w) == w.schema

\* SELECT COUNT(*) FROM sys.tables t JOIN sys.schemas s ... WHERE s.name = ? AND t.name = ?
table_exists(w, t) == w.schema /\ w.tables[t].exists

LookupSchema(st) == Issue(st, Stmt("SELECT sys.schemas", "", <<>>, TRUE))
LookupTable(st, t) == Issue(st, Stmt("SELECT sys.tables", t, <<>>, TRUE))

(***************************************************************************)
(* Schema lifecycle                                                        *)
(***************************************************************************)

create_schema(st0) ==
    LET st1 == LookupSchema(st0)
    IN  IF schema_exists(st1.w) THEN Return(st1, 1)
        ELSE LET st2 == Issue([st1 EXCEPT !.w.schema = TRUE],
                              Stmt("CREATE SCHEMA", "", <<>>, TRUE))
             IN  Return(Commit(st2), 1)

\* Mutant of DropTables: only the first enumerated table is dropped.
DropTables_FirstOnly(st, tables) ==
    IF tables = <<>> THEN st
    ELSE Issue([st EXCEPT !.w.tables[Head(tables)] = NoTable],
               Stmt("DROP TABLE", Head(tables), <<>>, TRUE))

\* for table in tables: cursor.execute(DROP TABLE)
RECURSIVE DropTables(_, _)
DropTables(st, tables) ==
    IF tables = <<>> THEN st
    ELSE DropTables(Issue([st EXCEPT !.w.tables[Head(tables)] = NoTable],
                          Stmt("DROP TABLE", Head(tables), <<>>, TRUE)),
                    Tail(tables))

\* cursor.execute(DROP SCHEMA); conn.commit(): the backend refuses to drop
\* a schema that still holds a table.
DropSchemaStmt(st) ==
    IF \E t \in TableNames : st.w.tables[t].exists
    THEN Raise(Issue(st, Stmt("DROP SCHEMA", "", <<>>, FALSE)), "BackendError")
    ELSE Return(Commit(Issue([st EXCEPT !.w.schema = FALSE],
                             Stmt("DROP SCHEMA", "", <<>>, TRUE))), 1)

\* The orders in which the catalog query may list the tables of the schema
\* (the SELECT has no ORDER BY).
Enumerations(w) ==
    LET present == {t \in TableNames : w.tables[t].exists}
    IN  {order \in [1..Cardinality(present) -> present] :
            \A i, j \in DOMAIN order : i # j => order[i] # order[j]}

drop_schema(st0, cascade, tables) ==
    LET st1 == LookupSchema(st0)
    IN  IF ~schema_exists(st1.w) THEN Return(st1, 1)
        ELSE IF cascade
             THEN DropSchemaStmt(DropTables(
                      Issue(st1, Stmt("SELECT sys.tables", "", <<>>, TRUE)), tables))
             ELSE DropSchemaStmt(st1)

(***************************************************************************)
(* Import                                                                  *)
(***************************************************************************)

\* The column list of the CREATE TABLE statement: col_types.items() is in
\* header order.
generate_create_table(hs, types) ==
    [i \in 1..Len(hs) |-> [name |-> hs[i], type |-> types[hs[i]]]]

\* cursor.execute(create_table_sql); conn.commit(): the backend refuses to
\* create a table in a schema that does not exist.
CreateTable(st, t, hs, types) ==
    IF ~st.w.schema
    THEN Raise(Issue(st, Stmt("CREATE TABLE", t, <<>>, FALSE)), "BackendError")
    ELSE Commit(Issue([st EXCEPT !.w.tables[t] =
                            [exists |-> TRUE, cols |-> generate_create_table(hs, types),
                             rows |-> <<>>]],
                      Stmt("CREATE TABLE", t, <<>>, TRUE)))

\* Mutant of Truncate: the truncation is committed on its own.
Truncate_Committed(st, t) ==
    Commit(Issue([st EXCEPT !.w.tables[t].rows = <<>>],
                 Stmt("TRUNCATE TABLE", t, <<>>, TRUE)))

\* cursor.execute(TRUNCATE TABLE): no commit follows it
Truncate(st, t) ==
    Issue([st EXCEPT !.w.tables[t].rows = <<>>], Stmt("TRUNCATE TABLE", t, <<>>, TRUE))

\* Mutant of ConversionType: the fallback type is used for every column.
ConversionType_Fallback(types, h) == "NVARCHAR"

\* col_types.get(h, 'NVARCHAR')
ConversionType(types, h) == IF h \in DOMAIN types THEN types[h] ELSE "NVARCHAR"

\* values = [convert_value(row.get(h, ''), col_types.get(h, 'NVARCHAR')) for h in headers]
RowValues(row, hs, types) ==
    [j \in 1..Len(hs) |-> convert_value(Get(row, hs[j]), ConversionType(types, hs[j]))]

ConversionFails(values) == \E j \in 1..Len(values) : values[j] = ValueError

\* The backend refuses an INSERT into a table or a column that does not
\* exist; failAt names the row whose INSERT the backend refuses for any
\* other reason (0: none).
InsertFails(w, t, hs, i, failAt) ==
    \/ ~table_exists(w, t)
    \/ ~(Range(hs) \subseteq ColNames(w.tables[t]))
    \/ i = failAt

\* The row as the table stores it: NULL in the columns the INSERT does not name.
StoredRow(table, hs, values, load) ==
    [load |-> load,
     vals |-> [c \in ColNames(table) |->
                 IF c \in Range(hs)
                 THEN values[CHOOSE j \in 1..Len(hs) : hs[j] = c] ELSE Null]]

\* for row in rows: values = ...; cursor.execute(insert_sql, values); rows_imported += 1
InsertRows(st, t, hs, rs, types, failAt, load) ==
    LET values(i) == RowValues(rs[i], hs, types)
        bad == {i \in 1..Len(rs) :
                   ConversionFails(values(i)) \/ InsertFails(st.w, t, hs, i, failAt)}
        k == IF bad = {} THEN Len(rs) + 1 ELSE Min(bad)
        inserted == [i \in 1..(k - 1) |-> Stmt("INSERT", t, values(i), TRUE)]
        refused == IF k <= Len(rs) /\ ~ConversionFails(values(k))
                   THEN <<Stmt("INSERT", t, values(k), FALSE)>> ELSE <<>>
        stored == [i \in 1..(k - 1) |-> StoredRow(st.w.tables[t], hs, values(i), load)]
        st1 == [st EXCEPT !.w.tables[t].rows = @ \o stored,
                          !.stmts = @ \o inserted \o refused,
                          !.ret = k - 1]
    IN  IF k > Len(rs) THEN st1
        ELSE IF ConversionFails(values(k)) THEN Raise(st1, "ValueError")
        ELSE Raise(st1, "BackendError")

\* if not headers
NoHeaders(hs) == hs = <<>>

\* Mutant of NoRows: the early return for a CSV without data rows is missing.
NoRows_Never(rs) == FALSE

\* if not rows
NoRows(rs) == rs = <<>>

\* if create_table and not table_exists(...): CREATE TABLE, commit
CreateIfAbsent(st, t, hs, types, create_table) ==
    IF ~create_table THEN st
    ELSE IF table_exists(st.w, t) THEN LookupTable(st, t)
    ELSE CreateTable(LookupTable(st, t), t, hs, types)

\* if truncate and table_exists(...): TRUNCATE TABLE
TruncateIfAsked(st, t, truncate) ==
    IF ~truncate THEN st
    ELSE IF table_exists(st.w, t) THEN Truncate(LookupTable(st, t), t)
    ELSE LookupTable(st, t)

\* conn.commit(); return rows_imported
CommitImport(st) == Return(Commit(st), st.ret)

\* Mutant of AfterInserts: the commit is reached on failure too (as from a
\* finally clause), and the error is swallowed.
AfterInserts_CommitAlways(st) == CommitImport(st)

\* After the insert loop: an exception raised in it has left import_csv,
\* so the commit is reached only when every INSERT succeeded.
AfterInserts(st) == IF st.outcome = "raised" THEN st ELSE CommitImport(st)

import_csv(st0, csv, t, create_table, truncate, failAt, load) ==
    IF NoHeaders(csv.headers) THEN Raise(st0, "ValueError")
    ELSE IF NoRows(csv.rows) THEN Return(st0, 0)
    ELSE
    Let(infer_column_types(csv.headers, csv.rows), LAMBDA types :
    Let(CreateIfAbsent(st0, t, csv.headers, types, create_table), LAMBDA st2 :
        IF st2.outcome = "raised" THEN st2
        ELSE
        Let(TruncateIfAsked(st2, t, truncate), LAMBDA st4 :
        Let(InsertRows(st4, t, csv.headers, csv.rows, types, failAt, load), LAMBDA st5 :
            AfterInserts(st5)))))

(***************************************************************************)
(* Spec: the operations called one after another on one session            *)
(***************************************************************************)

MaxCalls == 2
MaxRows == 2

ImportCellsOf(h) == IF h = "a" THEN {<<>>, <<"7">>, <<"x">>} ELSE {<<"1", ".", "5">>}

ImportHeaders == {<<>>, <<"a">>, <<"a", "b">>}

ImportDocs ==
    UNION {
        { [headers |-> hs, rows |-> rs] :
            rs \in SeqsUpTo({r \in [Range(hs) -> ImportCellsOf("a") \cup ImportCellsOf("b")] :
                                \A h \in Range(hs) : r[h] \in ImportCellsOf(h)},
                            IF hs = <<>> THEN 0 ELSE MaxRows) }
        : hs \in ImportHeaders }

\* What the last call was and how it went.
CallRecord(op, t, create_table, truncate, cascade, csv, failAt, st) ==
    [op |-> op, table |-> t, create_table |-> create_table, truncate |-> truncate,
     cascade |-> cascade, csv |-> csv, failAt |-> failAt,
     stmts |-> st.stmts, outcome |-> st.outcome, error |-> st.error, ret |-> st.ret]

NoCall ==
    CallRecord("none", "", FALSE, FALSE, FALSE, NoDoc, 0, Session(EmptyDb, EmptyDb))

\* Databases a session may find: empty, the schema alone (create_schema),
\* and the schema with the tables that earlier runs of
\* import_csv(a=7 -> t1) and import_csv(a=x -> t2) created and loaded.
SchemaOnly == [EmptyDb EXCEPT !.schema = TRUE]

SeedTable(type, value) ==
    [exists |-> TRUE, cols |-> <<[name |-> "a", type |-> type]>>,
     rows |-> <<[load |-> 0, vals |-> [c \in {"a"} |-> value]]>>]

OneTable == [SchemaOnly EXCEPT !.tables["t1"] = SeedTable("INT", IntValue(<<"7">>))]

TwoTables == [OneTable EXCEPT !.tables["t2"] = SeedTable("NVARCHAR(50)", StrValue(<<"x">>))]

InitDbs == {EmptyDb, SchemaOnly, OneTable, TwoTables}

Finish(st, record) ==
    /\ imported' = (record.op = "import_csv" \/ (imported /\ record.op # "reconnect"))
    /\ wdb' = st.w
    /\ cdb' = st.c
    /\ calls' = calls + 1
    /\ last' = record
    /\ UNCHANGED <<inferVars, cmpVars, pc>>

CreateSchema ==
    /\ calls < MaxCalls
    /\ \E st \in {create_schema(Session(wdb, cdb))} :
           Finish(st, CallRecord("create_schema", "", FALSE, FALSE, FALSE, NoDoc, 0, st))

DropSchema ==
    /\ calls < MaxCalls
    /\ \E cascade \in BOOLEAN, tables \in Enumerations(wdb) :
          \E st \in {drop_schema(Session(wdb, cdb), cascade, tables)} :
              Finish(st, CallRecord("drop_schema", "", FALSE, FALSE, cascade, NoDoc, 0, st))

\* main() runs one import on a connection (import_csv, then conn.close()).
ImportCsv ==
    /\ calls < MaxCalls
    /\ ~imported
    /\ \E csv \in ImportDocs, t \in TableNames, create_table \in BOOLEAN, truncate \in BOOLEAN :
          \E failAt \in 0..Len(csv.rows) :
              \E st \in {import_csv(Session(wdb, cdb), csv, t, create_table, truncate,
                                      failAt, calls + 1)} :
                  Finish(st, CallRecord("import_csv", t, create_table, truncate, FALSE,
                                        csv, failAt, st))

\* conn.close() and a new get_connection(): the uncommitted work of the
\* closed session is lost.
Reconnect ==
    /\ calls < MaxCalls
    /\ \E st \in {Session(cdb, cdb)} :
           Finish(st, CallRecord("reconnect", "", FALSE, FALSE, FALSE, NoDoc, 0, st))

Init ==
    /\ cdb \in InitDbs
    /\ wdb = cdb
    /\ calls = 0
    /\ imported = FALSE
    /\ last = NoCall
    /\ headers = <<>> /\ rows = <<>> /\ col_types = NoTypes
    /\ file1 = NoDoc /\ file2 = NoDoc /\ ignore_order = TRUE /\ result = NoResult
    /\ pc = "session"

Next == CreateSchema \/ DropSchema \/ ImportCsv \/ Reconnect

Spec == Init /\ [][Next]_vars

InitInfer ==
    /\ \E d \in InferDocs : headers = d.headers /\ rows = d.rows
    /\ col_types = NoTypes
    /\ pc = "input"
    /\ cdb = EmptyDb /\ wdb = EmptyDb /\ calls = 0 /\ imported = FALSE /\ last = NoCall
    /\ file1 = NoDoc /\ file2 = NoDoc /\ ignore_order = TRUE /\ result = NoResult

NextInfer == Infer

SpecInfer == InitInfer /\ [][NextInfer]_vars

InitCompare ==
    /\ file1 \in CmpDocs
    /\ file2 \in CmpDocs
    /\ ignore_order \in BOOLEAN
    /\ result = NoResult
    /\ pc = "input"
    /\ cdb = EmptyDb /\ wdb = EmptyDb /\ calls = 0 /\ imported = FALSE /\ last = NoCall
    /\ headers = <<>> /\ rows = <<>> /\ col_types = NoTypes

NextCompare == Compare

SpecCompare == InitCompare /\ [][NextCompare]_vars

(***************************************************************************)
(* Properties                                                              *)
(***************************************************************************)

\* The positions in the last call's statement trace that hold statement op.
At(op) == {i \in 1..Len(last.stmts) : last.stmts[i].op = op}

\* The same for the trace of the call that a step has just made.
AtNext(op) == {i \in 1..Len(last'.stmts) : last'.stmts[i].op = op}

\* A step that makes one call of op.
Calls(op) == calls' = calls + 1 /\ last'.op = op

\* C1: when an INSERT of import_csv is refused, the error leaves import_csv
\* (no retry, nothing swallowed), no commit is issued after the first
\* INSERT of the call, and no row of this load is committed.
C1_FailedImportCommitsNothing ==
    \A k \in At("INSERT") :
        (last.op = "import_csv" /\ ~last.stmts[k].ok) =>
            /\ last.outcome = "raised"
            /\ last.error = "BackendError"
            /\ k = Len(last.stmts)
            /\ \A c \in At("COMMIT"), i \in At("INSERT") : c < i
            /\ \A t \in TableNames :
                   \A i \in 1..Len(cdb.tables[t].rows) : cdb.tables[t].rows[i].load # calls

\* A failed import that had created its table (and committed that) and had
\* inserted a row before the refused INSERT.
C1_Witness ==
    /\ last.op = "import_csv"
    /\ last.outcome = "raised"
    /\ At("CREATE TABLE") # {}
    /\ At("COMMIT") # {}
    /\ \E i, k \in At("INSERT") : last.stmts[i].ok /\ ~last.stmts[k].ok

\* Statement i of the last call succeeded and is directly followed by a commit.
CommitFollows(i) ==
    last.stmts[i].ok => (i < Len(last.stmts) /\ last.stmts[i + 1].op = "COMMIT")

\* An import that returns rows commits once after its first INSERT, at its end.
SingleCommitAtEnd ==
    (last.op = "import_csv" /\ last.outcome = "returned" /\ At("INSERT") # {}) =>
        /\ last.stmts[Len(last.stmts)].op = "COMMIT"
        /\ \A c \in At("COMMIT") : c > Min(At("INSERT")) => c = Len(last.stmts)

\* C2 (as the code has it): CREATE SCHEMA and DROP SCHEMA are each directly
\* followed by their own commit; TRUNCATE TABLE is not: the statement after
\* it is the first INSERT, and the only commit after it is the single
\* commit at the end of a successful import.
C2_CommitDiscipline ==
    /\ \A i \in At("CREATE SCHEMA") \cup At("DROP SCHEMA") : CommitFollows(i)
    /\ \A i \in At("TRUNCATE TABLE") :
           /\ i < Len(last.stmts)
           /\ last.stmts[i + 1].op = "INSERT"
           /\ \A c \in At("COMMIT") : c > i => (c = Len(last.stmts) /\ last.outcome = "returned")
    /\ SingleCommitAtEnd

\* An import that truncated the table and then returned its rows.
C2_Witness ==
    /\ last.op = "import_csv"
    /\ last.outcome = "returned"
    /\ At("TRUNCATE TABLE") # {}
    /\ At("INSERT") # {}

\* C2 (as the claim has it): CREATE SCHEMA, DROP SCHEMA and TRUNCATE TABLE
\* are each directly followed by their own commit, and an import commits
\* once at its end.
C2_Original ==
    /\ \A i \in At("CREATE SCHEMA") \cup At("DROP SCHEMA") \cup At("TRUNCATE TABLE") :
           CommitFollows(i)
    /\ SingleCommitAtEnd

\* The CSV row that the INSERT at position i of the last call carries.
RowOfInsert(i) == last.csv.rows[i - Min(At("INSERT")) + 1]

\* C4 (as the code has it): every INSERT of an import carries each cell
\* converted under the type inferred for its column from the CSV being
\* loaded, whether or not the call created the table.
C4_ConversionUsesInferredTypes ==
    last.op = "import_csv" =>
        \A i \in At("INSERT") :
            last.stmts[i].values =
                [j \in 1..Len(last.csv.headers) |->
                    convert_value(Get(RowOfInsert(i), last.csv.headers[j]),
                                  infer_column_types(last.csv.headers,
                                                     last.csv.rows)[last.csv.headers[j]])]

\* A load into a table that the call did not create, in which a cell was
\* converted to an integer.
C4_Witness ==
    /\ last.op = "import_csv"
    /\ At("CREATE TABLE") = {}
    /\ \E i \in At("INSERT") :
           /\ last.stmts[i].ok
           /\ \E j \in 1..Len(last.stmts[i].values) : last.stmts[i].values[j].k = "int"

\* C4 (as the claim has it): a load that does not create the table converts
\* no cell under a freshly inferred type; with creation disabled every cell
\* is converted as text (the empty string to NULL, anything else unchanged).
C4_Original ==
    (last.op = "import_csv" /\ ~last.create_table) =>
        \A i \in At("INSERT") :
            last.stmts[i].values =
                [j \in 1..Len(last.csv.headers) |->
                    convert_value(Get(RowOfInsert(i), last.csv.headers[j]), "NVARCHAR")]

\* C6: a cascading drop of an existing schema issues one DROP TABLE for
\* every table in the schema, all of them before the single DROP SCHEMA,
\* which is followed by the commit; afterwards neither the schema nor any
\* of its tables exists.
C6_CascadingDrop ==
    [][ (Calls("drop_schema") /\ last'.cascade /\ schema_exists(wdb)) =>
            /\ {last'.stmts[i].table : i \in AtNext("DROP TABLE")}
                   = {t \in TableNames : wdb.tables[t].exists}
            /\ Cardinality(AtNext("DROP TABLE"))
                   = Cardinality({t \in TableNames : wdb.tables[t].exists})
            /\ Cardinality(AtNext("DROP SCHEMA")) = 1
            /\ \A i \in AtNext("DROP TABLE"), k \in AtNext("DROP SCHEMA") : i < k
            /\ AtNext("COMMIT") = {Len(last'.stmts)}
            /\ \A k \in AtNext("DROP SCHEMA") : last'.stmts[k].ok /\ k + 1 = Len(last'.stmts)
            /\ last'.outcome = "returned"
            /\ cdb' = EmptyDb
            /\ wdb' = EmptyDb ]_vars

\* A cascading drop that dropped two tables and then the schema.
C6_Witness ==
    /\ last.op = "drop_schema"
    /\ last.cascade
    /\ Cardinality(At("DROP TABLE")) = 2
    /\ At("DROP SCHEMA") # {}
    /\ last.outcome = "returned"

\* C7: drop_schema on a schema that does not exist returns without a DROP
\* statement and without a commit, and leaves the database as it was.
C7_DropOfAbsentSchema ==
    [][ (Calls("drop_schema") /\ ~wdb.schema) =>
            /\ last'.outcome = "returned"
            /\ AtNext("DROP TABLE") \cup AtNext("DROP SCHEMA") \cup AtNext("COMMIT") = {}
            /\ wdb' = wdb
            /\ cdb' = cdb ]_vars

\* A cascading drop_schema that found no schema.
C7_Witness ==
    /\ last.op = "drop_schema"
    /\ last.cascade
    /\ last.outcome = "returned"
    /\ At("DROP SCHEMA") = {}
    /\ ~wdb.schema

\* C10: import_csv of a CSV with a header and no data rows returns 0 and
\* issues no statement at all (no CREATE TABLE, TRUNCATE, INSERT, commit),
\* whatever create_table and truncate are; of a CSV without a header it
\* raises before any statement.  The database is left as it was.
C10_EmptyCsv ==
    [][ (Calls("import_csv") /\ last'.csv.rows = <<>>) =>
            /\ last'.stmts = <<>>
            /\ wdb' = wdb
            /\ cdb' = cdb
            /\ IF last'.csv.headers = <<>>
               THEN last'.outcome = "raised" /\ last'.error = "ValueError"
               ELSE last'.outcome = "returned" /\ last'.ret = 0 ]_vars

\* An import of a header-only CSV, with create_table and truncate both set,
\* into a schema that exists and lacks the table.
C10_Witness ==
    /\ last.op = "import_csv"
    /\ last.csv.headers # <<>>
    /\ last.csv.rows = <<>>
    /\ last.create_table
    /\ last.truncate
    /\ wdb.schema
    /\ ~wdb.tables[last.table].exists
    /\ last.outcome = "returned"

\* A decimal integer string whose value lies in -2^31 .. 2^31 - 1.
FitsInt32(v) ==
    LET n == IntVal(v)
    IN  \/ DigitsLeq(n.digits, Int32MaxDigits)
        \/ n.neg /\ n.digits = <<"2", "1", "4", "7", "4", "8", "3", "6", "4", "8">>

\* C3: a column whose values are all integers is inferred INT when every
\* value is representable as a signed 32-bit integer, and BIGINT only when
\* some value is not.
C3_Int32Inference ==
    pc = "done" =>
        \A h \in Range(headers) :
            LET values == ColumnValues(h, rows)
            IN  (values # <<>> /\ \A i \in 1..Len(values) : IsIntStr(values[i])) =>
                    col_types[h] =
                        IF \A i \in 1..Len(values) : FitsInt32(values[i])
                        THEN "INT" ELSE "BIGINT"

\* The bijections of 1..n.
Perms(n) == {p \in [1..n -> 1..n] : \A i, j \in 1..n : i # j => p[i] # p[j]}

\* The document with its data rows in the order p.
Permuted(f, p) == [f EXCEPT !.rows = [i \in 1..Len(f.rows) |-> f.rows[p[i]]]]

\* f2 is f1 with its rows permuted and cells replaced by strings that parse
\* to the same floating-point number.
NoisyCopy(f1, f2) ==
    /\ Range(f1.headers) = Range(f2.headers)
    /\ Len(f1.rows) = Len(f2.rows)
    /\ \E p \in Perms(Len(f1.rows)) :
           \A i \in 1..Len(f1.rows), h \in Range(f1.headers) :
               \/ f2.rows[i][h] = f1.rows[p[i]][h]
               \/ FloatEqual(f1.rows[p[i]][h], f2.rows[i][h])

\* C5: in order-insensitive mode, two documents with the same header set of
\* which the second is the first with rows permuted and cells replaced by
\* strings parsing to the same floating-point number compare as a match
\* with an empty difference list.
C5_NoiseEquivalence ==
    (pc = "done" /\ ignore_order /\ NoisyCopy(file1, file2)) =>
        (result.match /\ result.differences = <<>>)

\* C8: in both ordering modes the match flag of compare_csv_files(A, B) is
\* the match flag of compare_csv_files(B, A).
C8_Symmetry ==
    pc = "done" => compare_csv_files(file2, file1, ignore_order).match = result.match

\* Two documents with the same header set, written in different column
\* orders, and as many rows, which differ in a cell.
C8_Witness ==
    /\ pc = "done"
    /\ ~result.match
    /\ file1.headers # file2.headers
    /\ Range(file1.headers) = Range(file2.headers)
    /\ Len(file1.rows) = 2
    /\ Len(file2.rows) = 2
    /\ ~compare_csv_files(file2, file1, ignore_order).match

\* C9: with ignore_order the match flag does not change when the data rows
\* of either document are permuted.
C9_PermutationInvariance ==
    (pc = "done" /\ ignore_order) =>
        \A p \in Perms(Len(file1.rows)), q \in Perms(Len(file2.rows)) :
            compare_csv_files(Permuted(file1, p), Permuted(file2, q), TRUE).match
                = result.match

\* Two documents holding the same two distinct rows in opposite orders,
\* which match.
C9_Witness ==
    /\ pc = "done"
    /\ ignore_order
    /\ result.match
    /\ Len(file1.rows) = 2
    /\ file1.rows[1] # file1.rows[2]
    /\ file2.rows = <<file1.rows[2], file1.rows[1]>>

\* The column types that infer_column_types can return.
InferredTypes ==
    {"INT", "BIGINT", "DECIMAL(18,6)", "DATE", "DATETIME2",
     "NVARCHAR(50)", "NVARCHAR(255)", "NVARCHAR(MAX)"}

\* import_csv of the rows at hand into a fresh table, on a backend that
\* refuses no statement.
ImportOfRows ==
    import_csv(Session(SchemaOnly, SchemaOnly), [headers |-> headers, rows |-> rows],
               "t1", TRUE, FALSE, 0, 1)

\* C11: under the types inferred from a row set, convert_value raises for
\* no cell of that row set: a column typed INT or BIGINT holds only empty
\* cells and integer strings, a column typed DECIMAL only empty cells and
\* float strings, and an empty or missing cell converts to NULL; hence an
\* import that succeeds executes one INSERT per data row and returns the
\* number of data rows.
C11_InferenceConversionConsistency ==
    pc = "done" =>
        /\ \A h \in Range(headers), i \in 1..Len(rows) :
               /\ convert_value(Get(rows[i], h), col_types[h]) # ValueError
               /\ col_types[h] \in {"INT", "BIGINT"} =>
                      (Get(rows[i], h) = <<>> \/ IsIntStr(Get(rows[i], h)))
               /\ col_types[h] = "DECIMAL(18,6)" =>
                      (Get(rows[i], h) = <<>> \/ IsFloatStr(Get(rows[i], h)))
               /\ Get(rows[i], h) = <<>> =>
                      convert_value(Get(rows[i], h), col_types[h]) = Null
               /\ \A t \in InferredTypes : convert_value(Get(rows[i], "missing"), t) = Null
        /\ \E st \in {ImportOfRows} :
               /\ st.outcome = "returned"
               /\ st.ret = Len(rows)
               /\ Len(SelectSeq(st.stmts, LAMBDA m : m.op = "INSERT" /\ m.ok)) = Len(rows)
               /\ Len(SelectSeq(st.stmts, LAMBDA m : m.op = "INSERT")) = Len(rows)

\* Two rows in which one column mixes an integer and a float string (typed
\* DECIMAL) and the other an empty cell and an integer string (typed INT).
C11_Witness ==
    /\ pc = "done"
    /\ headers = <<"a", "b">>
    /\ Len(rows) = 2
    /\ rows[1]["a"] = <<"7">>
    /\ rows[2]["a"] = <<"1", ".", "5">>
    /\ col_types["a"] = "DECIMAL(18,6)"
    /\ rows[1]["b"] = <<>>
    /\ rows[2]["b"] = <<"7">>
    /\ col_types["b"] = "INT"

====
